---- MODULE Spec2Model ----
(***************************************************************************)
(* Model of the media-processor batch tool (src/main.go and the pkg/       *)
(* variants of the same functions): the media analyzer, the format catalog *)
(* resolver, the transcode plan builders, the per-file proxy workflow and  *)
(* the batch driver, over an explicit model of the watched directory.      *)
(*                                                                         *)
(* Strings the code takes apart (file names, codec names) are sequences of *)
(* tokens, so that suffix, extension and substring tests are computed.     *)
(***************************************************************************)
EXTENDS Integers, Sequences, FiniteSets, TLC

VARIABLES
    fs,        \* the watched directory: files by (subdirectory, name), and the subdirectories present
    env,       \* the execution environment: watch path, installed tools, pixel format catalog
    proc,      \* per running instance of main: control point and locals of main / processFile
    log,       \* one record per finished processFile call (the lines main logs)
    faults,    \* how many system calls and tool runs have failed for outside reasons so far
    aStreams,  \* analyzer run: the probed streams (info.Streams)
    aCatalog,  \* analyzer run: output of the pixel format listing
    aIdx,      \* analyzer run: index of the next stream of the range loop
    aProps,    \* analyzer run: mediaProperties accumulated so far
    aPrev,     \* analyzer run: mediaProperties before the last loop iteration
    call,      \* function call: the function called and its arguments
    ret        \* function call: whether it has returned, and the value returned

vars == <<fs, env, proc, log, faults, aStreams, aCatalog, aIdx, aProps, aPrev, call, ret>>

wfVars == <<fs, env, proc, log, faults>>
anVars == <<aStreams, aCatalog, aIdx, aProps, aPrev>>
fnVars == <<call, ret>>

\* ---------------------------------------------------------------- bounds

\* longest stream sequence the analyzer runs explore
MaxStreams == 2
\* longest catalog listing the analyzer runs explore
MaxLines == 2
\* most files present in the watched directory at start
MaxFiles == 2
\* number of times main is run over the directory
MaxRuns == 2
\* most failures of system calls and tool runs that the directory's content does not explain
MaxFaults == 1
\* longest codec name, in tokens, the calls of the codec predicate explore
MaxTokens == 2

\* ---------------------------------------------------------------- sequences

Last(s) == s[Len(s)]

RECURSIVE SeqsUpTo(_, _)
\* all sequences over S of length at most n
SeqsUpTo(S, n) ==
    IF n = 0 THEN {<<>>}
    ELSE LET shorter == SeqsUpTo(S, n - 1)
         IN  shorter \cup {Append(s, x) : s \in {t \in shorter : Len(t) = n - 1}, x \in S}

\* strings.Contains(s, tok) for a token sequence s and a one-token needle
ContainsTok(s, tok) == \E i \in 1..Len(s) : s[i] = tok

\* ---------------------------------------------------------------- media analysis

SupportedFormats == { <<"mp3">>, <<"opus">>, <<"flac">>, <<"ac3">> }

\* faulty variant: the exact-match list is tested by substring too
isAudioCodecSupported_Substring(codecName) ==
    \/ ContainsTok(codecName, "pcm_")
    \/ \E f \in SupportedFormats : ContainsTok(codecName, f[1])

isAudioCodecSupported(codecName) ==
    \/ ContainsTok(codecName, "pcm_")
    \/ codecName \in SupportedFormats

\* One line of the catalog listing as the regular expression sees it: wf says
\* whether the line matches the record pattern at all; nb is the single digit of
\* the component count; depth holds the '-'-separated numbers of the last field.
PixFmtNames == {"yuv420p", "yuv420p10le", "monow"}
CatalogLines ==
    { [wf |-> TRUE,  name |-> "yuv420p",     nb |-> 3, depth |-> <<8, 8, 8>>],
      [wf |-> TRUE,  name |-> "yuv420p10le", nb |-> 3, depth |-> <<10, 10, 10>>],
      [wf |-> TRUE,  name |-> "monow",       nb |-> 1, depth |-> <<1>>],
      [wf |-> TRUE,  name |-> "yuv420p",     nb |-> 1, depth |-> <<10, 8>>],
      [wf |-> FALSE, name |-> "yuv420p10le", nb |-> 3, depth |-> <<12>>] }

\* strconv.Atoi of a '-'-joined field: a number only when it has one component
Atoi(depthStr) == IF Len(depthStr) = 1 THEN depthStr[1] ELSE 0

Err == [ok |-> FALSE, val |-> -1]
Ok(v) == [ok |-> TRUE, val |-> v]

\* faulty variant: the depth field is never cut at its first '-'
processPixelFormatMatch_WholeField(line, pixelFormat) ==
    IF line.name = pixelFormat THEN Ok(Atoi(line.depth)) ELSE Err

processPixelFormatMatch(line, pixelFormat) ==
    IF line.name = pixelFormat
    THEN LET bitDepthStr == IF line.nb > 1 THEN <<Head(line.depth)>> ELSE line.depth
         IN  Ok(Atoi(bitDepthStr))
    ELSE Err

RECURSIVE ScanLines(_, _, _)
ScanLines(lines, k, pixelFormat) ==
    IF k > Len(lines) THEN Err
    ELSE LET r == IF lines[k].wf THEN processPixelFormatMatch(lines[k], pixelFormat) ELSE Err
         IN  IF r.ok THEN r ELSE ScanLines(lines, k + 1, pixelFormat)

\* catalog.ok: whether the listing command ran; catalog.lines: its output
getBitDepth(catalog, pixelFormat) ==
    IF ~catalog.ok THEN Err ELSE ScanLines(catalog.lines, 1, pixelFormat)

ZeroProps ==
    [hasVideoStream |-> FALSE, hasAudioStream |-> FALSE, isVertical |-> FALSE,
     unsupportedAudioFormat |-> FALSE, highestBitDepth |-> 0]

\* faulty variant: a failed resolution contributes nothing instead of the default 8
StreamBitDepth_NoDefault(catalog, stream) ==
    LET r == getBitDepth(catalog, stream.pix) IN IF r.ok THEN r.val ELSE 0

\* the depth a video stream contributes: the resolved depth, 8 when resolution fails
StreamBitDepth(catalog, stream) ==
    LET r == getBitDepth(catalog, stream.pix) IN IF r.ok THEN r.val ELSE 8

\* faulty variant: the orientation test is strict the other way (ties go to horizontal)
AnalyzeVideo_TieHorizontal(p, stream, catalog) ==
    LET bitDepth == StreamBitDepth(catalog, stream)
    IN  [p EXCEPT !.hasVideoStream = TRUE,
                  !.highestBitDepth = IF bitDepth > @ THEN bitDepth ELSE @,
                  !.isVertical = stream.h > stream.w]

\* faulty variant: the highest depth is overwritten by every video stream
AnalyzeVideo_LastDepth(p, stream, catalog) ==
    LET bitDepth == StreamBitDepth(catalog, stream)
    IN  [p EXCEPT !.hasVideoStream = TRUE,
                  !.highestBitDepth = bitDepth,
                  !.isVertical = ~(stream.w > stream.h)]

\* the body of the range loop for a video stream
AnalyzeVideo(p, stream, catalog) ==
    LET bitDepth == StreamBitDepth(catalog, stream)
    IN  [p EXCEPT !.hasVideoStream = TRUE,
                  !.highestBitDepth = IF bitDepth > @ THEN bitDepth ELSE @,
                  !.isVertical = ~(stream.w > stream.h)]

\* faulty variant: an unsupported codec is remembered across later audio streams
AnalyzeAudio_Sticky(p, stream) ==
    [p EXCEPT !.hasAudioStream = TRUE,
              !.unsupportedAudioFormat = @ \/ ~isAudioCodecSupported(stream.codec)]

\* faulty variant: the audio branch forgets to record that an audio stream was seen
AnalyzeAudio_NoFlag(p, stream) ==
    [p EXCEPT !.unsupportedAudioFormat = ~isAudioCodecSupported(stream.codec)]

\* the body of the range loop for an audio stream
AnalyzeAudio(p, stream) ==
    [p EXCEPT !.hasAudioStream = TRUE,
              !.unsupportedAudioFormat = ~isAudioCodecSupported(stream.codec)]

\* one iteration of the range loop over info.Streams
AnalyzeStream(p, stream, catalog) ==
    LET v == IF stream.kind = "video" THEN AnalyzeVideo(p, stream, catalog) ELSE p
    IN  IF stream.kind = "audio" THEN AnalyzeAudio(v, stream) ELSE v

RECURSIVE AnalyzeFrom(_, _, _, _)
AnalyzeFrom(p, streams, k, catalog) ==
    IF k > Len(streams) THEN p
    ELSE AnalyzeFrom(AnalyzeStream(p, streams[k], catalog), streams, k + 1, catalog)

analyzeMediaInfo(streams, catalog) == AnalyzeFrom(ZeroProps, streams, 1, catalog)

\* ---------------------------------------------------------------- analyzer runs

VideoStreams ==
    { [kind |-> "video", codec |-> <<"h264">>, w |-> d[1], h |-> d[2], pix |-> f] :
        d \in {<<2, 1>>, <<1, 1>>, <<1, 2>>}, f \in PixFmtNames }
AudioStreams ==
    { [kind |-> "audio", codec |-> c, w |-> 0, h |-> 0, pix |-> ""] :
        c \in {<<"aac">>, <<"mp3">>, <<"pcm_", "s16le">>} }
OtherStreams ==
    { [kind |-> "subtitle", codec |-> <<"mov_text">>, w |-> 0, h |-> 0, pix |-> ""] }
StreamDescs == VideoStreams \cup AudioStreams \cup OtherStreams

FailedCatalog == [ok |-> FALSE, lines |-> <<>>]
Catalogs ==
    {FailedCatalog} \cup {[ok |-> TRUE, lines |-> l] : l \in SeqsUpTo(CatalogLines, MaxLines)}

\* the listing of a usual installation
DefaultCatalog ==
    [ok |-> TRUE,
     lines |-> << [wf |-> FALSE, name |-> "yuv420p10le", nb |-> 3, depth |-> <<12>>],
                  [wf |-> TRUE,  name |-> "yuv420p",     nb |-> 3, depth |-> <<8, 8, 8>>],
                  [wf |-> TRUE,  name |-> "yuv420p10le", nb |-> 3, depth |-> <<10, 10, 10>>],
                  [wf |-> TRUE,  name |-> "monow",       nb |-> 1, depth |-> <<1>>] >>]

AnalyzeDone == aIdx > Len(aStreams)

\* one iteration of the range loop of analyzeMediaInfo
AnalyzeNext ==
    /\ ~AnalyzeDone
    /\ aProps' = AnalyzeStream(aProps, aStreams[aIdx], aCatalog)
    /\ aPrev' = aProps
    /\ aIdx' = aIdx + 1
    /\ UNCHANGED <<aStreams, aCatalog, wfVars, fnVars>>

\* the prefix of the streams the loop has consumed
Seen == 1..(aIdx - 1)
SeenVideo == {i \in Seen : aStreams[i].kind = "video"}
SeenAudio == {i \in Seen : aStreams[i].kind = "audio"}
MaxOf(S) == CHOOSE x \in S : \A y \in S : y <= x

\* ---------------------------------------------------------------- names and paths

\* file names as token sequences: "a.mkv", "a.mp4", "b.MOV", "n.txt",
\* in the order os.ReadDir returns them (sorted by name)
NameOrder ==
    << <<"a", ".", "mkv">>, <<"a", ".", "mp4">>, <<"b", ".", "MOV">>, <<"n", ".", "txt">> >>
Names == {NameOrder[k] : k \in 1..Len(NameOrder)}

\* strings.ToLower on the extension tokens in use
ToLower(tok) == IF tok = "MOV" THEN "mov" ELSE tok

MediaExtensions ==
    {"mp4", "avi", "mkv", "mov", "flv", "wmv", "mp3", "wav", "aac", "ogg", "flac"}

\* strings.HasSuffix(strings.ToLower(filePath), ext) for some media extension
isMediaFile(filePath) ==
    LET n == filePath.name
    IN  /\ Len(n) >= 2
        /\ n[Len(n) - 1] = "."
        /\ ToLower(n[Len(n)]) \in MediaExtensions

\* position of the last "." of a name, 0 when it has none
LastDot(n) ==
    IF ContainsTok(n, ".") THEN MaxOf({k \in 1..Len(n) : n[k] = "."}) ELSE 0

\* filepath.Ext: the suffix that starts at the last dot
Ext(n) == IF LastDot(n) = 0 THEN <<>> ELSE SubSeq(n, LastDot(n), Len(n))

\* strings.TrimSuffix(n, suffix)
TrimSuffix(n, suffix) ==
    IF /\ Len(suffix) <= Len(n)
       /\ SubSeq(n, Len(n) - Len(suffix) + 1, Len(n)) = suffix
    THEN SubSeq(n, 1, Len(n) - Len(suffix))
    ELSE n

\* a path: the directory main was given, an optional subdirectory, a file name
Path(dir, sub, name) == [dir |-> dir, sub |-> sub, name |-> name]
\* strings.TrimRight(watchPath, "/") + "/" + file.Name()
FilePathOf(watchPath, name) == Path(watchPath, "", name)
\* filepath.Dir of a path of a file of the watched directory
Dir(path) == path.dir
\* filepath.Base
Base(path) == path.name
\* filepath.Join(parentDir, sub, name)
Join(parentDir, sub, name) == Path(parentDir, sub, name)

\* faulty variant: the proxy keeps the source's extension
ProxyFilePath_KeepExt(filePath) ==
    Join(Dir(filePath), "Proxy", filePath.name \o <<".", "mov">>)

\* processFile: Proxy/<name without extension>.mov
ProxyFilePath(filePath) ==
    Join(Dir(filePath), "Proxy", TrimSuffix(filePath.name, Ext(filePath.name)) \o <<".", "mov">>)

\* <dir>/Originals/<name with extension>
OriginalsPath(filePath) == Join(Dir(filePath), "Originals", Base(filePath))

\* ---------------------------------------------------------------- the directory

Key(path) == [sub |-> path.sub, name |-> path.name]

NoFile == [tag |-> "none", of |-> <<>>, streams |-> <<>>]
\* the content of a source file as the user put it there
Source(name, streams) == [tag |-> "src", of |-> name, streams |-> streams]
\* a file that was in Proxy or Originals before the first run
Earlier(name) == [tag |-> "earlier", of |-> name, streams |-> <<>>]
\* what an interrupted transcode leaves behind
Partial(of) == [tag |-> "partial", of |-> of, streams |-> <<>>]

\* f.files maps the keys of the files that exist to their content
FileAt(f, key) == IF key \in DOMAIN f.files THEN f.files[key] ELSE NoFile
Exists(f, path) == Key(path) \in DOMAIN f.files
\* the directory with the file at key created or replaced
Put(f, key, content) ==
    [f EXCEPT !.files = [k \in (DOMAIN f.files) \cup {key} |->
                            IF k = key THEN content ELSE f.files[k]]]
\* the directory without the file at key
Remove(f, key) ==
    [f EXCEPT !.files = [k \in (DOMAIN f.files) \ {key} |-> f.files[k]]]
DirExists(f, sub) == sub = "" \/ sub \in f.dirs

\* os.ReadDir: the entries of the watched directory, sorted by name
AllEntries ==
    << [name |-> <<"Originals">>, isDir |-> TRUE], [name |-> <<"Proxy">>, isDir |-> TRUE] >>
    \o [k \in 1..Len(NameOrder) |-> [name |-> NameOrder[k], isDir |-> FALSE]]
EntryPresent(f, e) ==
    IF e.isDir THEN e.name[1] \in f.dirs
    ELSE [sub |-> "", name |-> e.name] \in DOMAIN f.files
ReadDir(f) == SelectSeq(AllEntries, LAMBDA e : EntryPresent(f, e))

\* ---------------------------------------------------------------- transcode plans

\* a command token: a literal or a path
Lit(s) == [s |-> s, p |-> Path("", "", <<>>)]
Arg(path) == [s |-> "", p |-> path]
IsLit(tok, s) == tok.s = s
HasLit(cmd, s) == \E k \in 1..Len(cmd) : IsLit(cmd[k], s)
\* the token that follows the first occurrence of the literal s
After(cmd, s) == cmd[(CHOOSE k \in 1..Len(cmd) : IsLit(cmd[k], s) /\ \A j \in 1..(k - 1) : ~IsLit(cmd[j], s)) + 1]

useHwaccel == TRUE

\* faulty variant: PCM audio is forced whenever the file has audio, supported or not
createFfmpegCommandForProxy_AlwaysPcm(filePath, proxyFilePath, media) ==
    <<Lit("ffmpeg"), Lit("-y"), Lit("-hide_banner"), Lit("-loglevel"), Lit("error")>>
    \o (IF useHwaccel THEN <<Lit("-hwaccel"), Lit("cuda")>> ELSE <<>>)
    \o <<Lit("-i"), Arg(filePath)>>
    \o (IF media.hasVideoStream
        THEN (IF useHwaccel THEN <<Lit("-c:v"), Lit("h264_nvenc")>>
                            ELSE <<Lit("-c:v"), Lit("libx264")>>)
             \o (IF media.highestBitDepth > 8 THEN <<Lit("-pix_fmt"), Lit("yuv420p")>> ELSE <<>>)
             \o <<Lit("-maxrate"), Lit("6M"), Lit("-preset"), Lit("fast")>>
             \o (IF media.isVertical THEN <<Lit("-vf"), Lit("scale=540:-2")>>
                                     ELSE <<Lit("-vf"), Lit("scale=960:-2")>>)
        ELSE <<>>)
    \o (IF media.hasAudioStream THEN <<Lit("-c:a"), Lit("pcm_s16le")>> ELSE <<>>)
    \o <<Arg(proxyFilePath)>>

createFfmpegCommandForProxy(filePath, proxyFilePath, media) ==
    <<Lit("ffmpeg"), Lit("-y"), Lit("-hide_banner"), Lit("-loglevel"), Lit("error")>>
    \o (IF useHwaccel THEN <<Lit("-hwaccel"), Lit("cuda")>> ELSE <<>>)
    \o <<Lit("-i"), Arg(filePath)>>
    \o (IF media.hasVideoStream
        THEN (IF useHwaccel THEN <<Lit("-c:v"), Lit("h264_nvenc")>>
                            ELSE <<Lit("-c:v"), Lit("libx264")>>)
             \o (IF media.highestBitDepth > 8 THEN <<Lit("-pix_fmt"), Lit("yuv420p")>> ELSE <<>>)
             \o <<Lit("-maxrate"), Lit("6M"), Lit("-preset"), Lit("fast")>>
             \o (IF media.isVertical THEN <<Lit("-vf"), Lit("scale=540:-2")>>
                                     ELSE <<Lit("-vf"), Lit("scale=960:-2")>>)
        ELSE <<>>)
    \o (IF media.hasAudioStream /\ media.unsupportedAudioFormat
        THEN <<Lit("-c:a"), Lit("pcm_s16le")>> ELSE <<>>)
    \o <<Arg(proxyFilePath)>>

\* faulty variant: the conversion writes next to the relocated original instead of the vacated path
createFfmpegCommandForOriginal_Misplaced(filePath) ==
    <<Lit("ffmpeg"), Lit("-y"), Lit("-hide_banner"), Lit("-loglevel"), Lit("error"),
      Lit("-i"), Arg(OriginalsPath(filePath)), Lit("-c:v"), Lit("copy"),
      Lit("-c:a"), Lit("pcm_s16le"), Arg(ProxyFilePath(filePath))>>

\* faulty variant: the conversion writes over the relocated original
createFfmpegCommandForOriginal_InPlace(filePath) ==
    <<Lit("ffmpeg"), Lit("-y"), Lit("-hide_banner"), Lit("-loglevel"), Lit("error"),
      Lit("-i"), Arg(OriginalsPath(filePath)), Lit("-c:v"), Lit("copy"),
      Lit("-c:a"), Lit("pcm_s16le"), Arg(OriginalsPath(filePath))>>

\* faulty variant: the conversion reads the source path, which the rename has vacated
createFfmpegCommandForOriginal_FromSource(filePath) ==
    <<Lit("ffmpeg"), Lit("-y"), Lit("-hide_banner"), Lit("-loglevel"), Lit("error"),
      Lit("-i"), Arg(filePath), Lit("-c:v"), Lit("copy"),
      Lit("-c:a"), Lit("pcm_s16le"), Arg(filePath)>>

createFfmpegCommandForOriginal(filePath) ==
    LET fileName == Base(filePath)
        parentDir == Dir(filePath)
        inputFilePath == Join(parentDir, "Originals", fileName)
    IN  <<Lit("ffmpeg"), Lit("-y"), Lit("-hide_banner"), Lit("-loglevel"), Lit("error"),
          Lit("-i"), Arg(inputFilePath), Lit("-c:v"), Lit("copy"),
          Lit("-c:a"), Lit("pcm_s16le"), Arg(filePath)>>

\* the transcode tool, as far as the directory sees it: it reads the path after
\* -i and writes its last argument, replacing what is there (-y)
CmdInput(cmd) == After(cmd, "-i").p
CmdOutput(cmd) == Last(cmd).p
CodecTokens(s) == IF s = "pcm_s16le" THEN <<"pcm_", "s16le">> ELSE <<s>>
TranscodeStream(st, cmd) ==
    IF st.kind = "video" /\ HasLit(cmd, "-c:v") /\ After(cmd, "-c:v").s /= "copy"
    THEN [st EXCEPT !.codec = CodecTokens(After(cmd, "-c:v").s),
                    !.pix = IF HasLit(cmd, "-pix_fmt") THEN After(cmd, "-pix_fmt").s ELSE @]
    ELSE IF st.kind = "audio" /\ HasLit(cmd, "-c:a")
    THEN [st EXCEPT !.codec = CodecTokens(After(cmd, "-c:a").s)]
    ELSE st
Transcoded(content, cmd) ==
    [tag |-> "transcoded", of |-> content.of,
     streams |-> [k \in 1..Len(content.streams) |-> TranscodeStream(content.streams[k], cmd)]]

\* whether the command can succeed at all
CanTranscode(f, cmd) ==
    /\ Exists(f, CmdInput(cmd))
    /\ FileAt(f, Key(CmdInput(cmd))).tag /= "partial"
    /\ DirExists(f, CmdOutput(cmd).sub)
\* the directory after a successful run of the command
TranscodeOk(f, cmd) ==
    Put(f, Key(CmdOutput(cmd)), Transcoded(FileAt(f, Key(CmdInput(cmd))), cmd))
\* the directories a failed run can leave: untouched, or with a truncated output
TranscodeFailed(f, cmd) ==
    {f} \cup
    (IF Exists(f, CmdInput(cmd)) /\ DirExists(f, CmdOutput(cmd).sub)
     THEN {Put(f, Key(CmdOutput(cmd)), Partial(FileAt(f, Key(CmdInput(cmd))).of))}
     ELSE {})

\* ---------------------------------------------------------------- processFile and main

Insts == {1, 2}

IdleProc ==
    [pc |-> "off", run |-> 0, entries |-> <<>>, idx |-> 0, name |-> <<>>,
     info |-> <<>>, props |-> ZeroProps, fsStart |-> [files |-> <<>>, dirs |-> {}],
     probes |-> 0, catalogs |-> 0, plans |-> 0, proxied |-> NoFile]

\* the path main hands to processFile for the entry being processed
CurPath(i) == FilePathOf(env.watchPath, proc[i].name)

\* main's filters on a directory entry
Eligible(e) ==
    /\ ~e.isDir
    /\ isMediaFile(FilePathOf(env.watchPath, e.name))
    /\ Dir(FilePathOf(env.watchPath, e.name)) /= "Proxy"

\* faulty variant: an error ends the loop instead of continuing with the next entry
NextIndex_BreakOnError(idx, n, failed) == IF failed THEN n + 1 ELSE idx + 1

\* the range loop of main: every outcome of processFile moves on to the next entry
NextIndex(idx, n, failed) == idx + 1

\* faulty variant: the existing proxy is looked for under the source's own name
proxyAlreadyExists_WrongPath(f, filePath) == Exists(f, Join(Dir(filePath), "Proxy", Base(filePath)))

\* faulty variant: a truncated proxy does not count, the file is processed again
proxyAlreadyExists_OnlyComplete(f, filePath) ==
    /\ Exists(f, ProxyFilePath(filePath))
    /\ FileAt(f, Key(ProxyFilePath(filePath))).tag /= "partial"

\* processFile: os.Stat(proxyFilePath) succeeds
proxyAlreadyExists(f, filePath) == Exists(f, ProxyFilePath(filePath))

\* faulty variant: the check is made on the source path
originalAlreadyExists_WrongPath(f, filePath) == ~Exists(f, filePath)

\* processUnsupportedAudioOriginal: os.Stat(inputFilePath) succeeds
originalAlreadyExists(f, filePath) == Exists(f, OriginalsPath(filePath))

\* faulty variant: only the empty stream list is rejected
noUsableStreams_OnlyEmpty(streams, props) == Len(streams) = 0

\* processFile: the two validation tests after the probe
noUsableStreams(streams, props) ==
    \/ Len(streams) = 0
    \/ ~props.hasVideoStream /\ ~props.hasAudioStream

\* faulty variant: the proxy directory is prepared before the file is probed
StepAfter_DirFirst(step) ==
    CASE step = "IdempotencyCheck" -> "PrepareProxyDir"
      [] step = "PrepareProxyDir" -> "Probe"
      [] step = "Probe" -> "Validate"
      [] step = "Validate" -> "ExecuteProxyPlan"
      [] step = "ExecuteProxyPlan" -> "RemPrepareDir"
      [] step = "RemPrepareDir" -> "RemCheckOriginal"
      [] step = "RemCheckOriginal" -> "RemRename"
      [] step = "RemRename" -> "RemConvert"

\* the statement order of processFile and processUnsupportedAudioOriginal
StepAfter(step) ==
    CASE step = "IdempotencyCheck" -> "Probe"
      [] step = "Probe" -> "Validate"
      [] step = "Validate" -> "PrepareProxyDir"
      [] step = "PrepareProxyDir" -> "ExecuteProxyPlan"
      [] step = "ExecuteProxyPlan" -> "RemPrepareDir"
      [] step = "RemPrepareDir" -> "RemCheckOriginal"
      [] step = "RemCheckOriginal" -> "RemRename"
      [] step = "RemRename" -> "RemConvert"

\* a system call or a tool run may fail for reasons outside the directory
MayFail == faults < MaxFaults

\* processFile returns to main, which logs the outcome and takes the next entry
Return(i, result, reason, f, p, fault) ==
    /\ fs' = f
    /\ faults' = faults + fault
    /\ log' = Append(log,
                [inst |-> i, run |-> p.run, name |-> p.name, result |-> result,
                 reason |-> reason, fsStart |-> p.fsStart, fsEnd |-> f,
                 probes |-> p.probes, catalogs |-> p.catalogs, plans |-> p.plans,
                 info |-> p.info, props |-> p.props, proxied |-> p.proxied])
    /\ proc' = [proc EXCEPT ![i] =
                  [p EXCEPT !.pc = "loop",
                            !.idx = NextIndex(p.idx, Len(p.entries), result = "Failed")]]
    /\ UNCHANGED <<env, anVars, fnVars>>

\* processFile continues with its next statement
Goto(i, f, p, fault) ==
    /\ fs' = f
    /\ faults' = faults + fault
    /\ proc' = [proc EXCEPT ![i] = [p EXCEPT !.pc = StepAfter(p.pc)]]
    /\ UNCHANGED <<env, log, anVars, fnVars>>

\* main: exec.LookPath("ffmpeg") fails, log.Fatal
MainNoFfmpeg(i) ==
    /\ proc[i].pc = "main"
    /\ ~env.ffmpeg
    /\ proc' = [proc EXCEPT ![i].pc = "fatal"]
    /\ UNCHANGED <<fs, env, log, faults, anVars, fnVars>>

\* main: os.ReadDir fails, log.Fatal
MainReadDirFails(i) ==
    /\ proc[i].pc = "main"
    /\ env.ffmpeg
    /\ MayFail
    /\ proc' = [proc EXCEPT ![i].pc = "fatal"]
    /\ faults' = faults + 1
    /\ UNCHANGED <<fs, env, log, anVars, fnVars>>

\* main: the directory is listed once, before the loop
MainReadDir(i) ==
    /\ proc[i].pc = "main"
    /\ env.ffmpeg
    /\ proc' = [proc EXCEPT ![i] = [@ EXCEPT !.pc = "loop", !.entries = ReadDir(fs), !.idx = 1]]
    /\ UNCHANGED <<fs, env, log, faults, anVars, fnVars>>

\* main: a directory, a non-media file or a file of a directory named Proxy is passed over
MainSkipEntry(i) ==
    /\ proc[i].pc = "loop"
    /\ proc[i].idx <= Len(proc[i].entries)
    /\ ~Eligible(proc[i].entries[proc[i].idx])
    /\ proc' = [proc EXCEPT ![i].idx = @ + 1]
    /\ UNCHANGED <<fs, env, log, faults, anVars, fnVars>>

\* main calls processFile
MainProcessFile(i) ==
    /\ proc[i].pc = "loop"
    /\ proc[i].idx <= Len(proc[i].entries)
    /\ Eligible(proc[i].entries[proc[i].idx])
    /\ proc' = [proc EXCEPT ![i] =
                  [@ EXCEPT !.pc = "IdempotencyCheck",
                            !.name = proc[i].entries[proc[i].idx].name,
                            !.info = <<>>, !.props = ZeroProps, !.fsStart = fs,
                            !.probes = 0, !.catalogs = 0, !.plans = 0, !.proxied = NoFile]]
    /\ UNCHANGED <<fs, env, log, faults, anVars, fnVars>>

\* main: the loop is over
MainExit(i) ==
    /\ proc[i].pc = "loop"
    /\ proc[i].idx > Len(proc[i].entries)
    /\ proc' = [proc EXCEPT ![i].pc = "exit"]
    /\ UNCHANGED <<fs, env, log, faults, anVars, fnVars>>

\* the tool is run again over the same directory
MainAgain(i) ==
    /\ proc[i].pc = "exit"
    /\ proc[i].run < MaxRuns
    /\ proc' = [proc EXCEPT ![i] = [@ EXCEPT !.pc = "main", !.run = @ + 1]]
    /\ UNCHANGED <<fs, env, log, faults, anVars, fnVars>>

\* processFile: the proxy is there already
Skip(i) ==
    /\ proc[i].pc = "IdempotencyCheck"
    /\ proxyAlreadyExists(fs, CurPath(i))
    /\ Return(i, "Skipped", "", fs, proc[i], 0)

NotSkipped(i) ==
    /\ proc[i].pc = "IdempotencyCheck"
    /\ ~proxyAlreadyExists(fs, CurPath(i))
    /\ Goto(i, fs, proc[i], 0)

\* the probe tool can read the file
CanProbe(f, path) ==
    /\ env.ffprobe
    /\ Exists(f, path)
    /\ FileAt(f, Key(path)).tag /= "partial"

\* getMediaInfo: the probe tool runs and its output decodes
ProbeOk(i) ==
    /\ proc[i].pc = "Probe"
    /\ CanProbe(fs, CurPath(i))
    /\ Goto(i, fs, [proc[i] EXCEPT !.probes = @ + 1,
                                   !.info = FileAt(fs, Key(CurPath(i))).streams], 0)

\* getMediaInfo: the probe tool cannot be run, reports an error, or prints what does not decode
ProbeFails(i) ==
    /\ proc[i].pc = "Probe"
    /\ CanProbe(fs, CurPath(i)) => MayFail
    /\ Return(i, "Failed", "ProbeFailed", fs, [proc[i] EXCEPT !.probes = @ + 1],
              IF CanProbe(fs, CurPath(i)) THEN 1 ELSE 0)

\* the catalog is listed once per video stream, and not at all without streams
CatalogCalls(streams) == Cardinality({k \in 1..Len(streams) : streams[k].kind = "video"})

\* the listing command of one call of processFile: it prints the catalog or,
\* when it is run at all, fails
Listings(streams) ==
    {env.catalog} \cup (IF MayFail /\ CatalogCalls(streams) > 0 THEN {FailedCatalog} ELSE {})

ValidateFails(i) ==
    /\ proc[i].pc = "Validate"
    /\ \E catalog \in Listings(proc[i].info) :
          LET props == analyzeMediaInfo(proc[i].info, catalog)
              seen == [proc[i] EXCEPT !.props = props, !.catalogs = CatalogCalls(proc[i].info)]
          IN  /\ noUsableStreams(proc[i].info, props)
              /\ Return(i, "Failed", "NoUsableStreams", fs, seen,
                        IF catalog = env.catalog THEN 0 ELSE 1)

ValidateOk(i) ==
    /\ proc[i].pc = "Validate"
    /\ \E catalog \in Listings(proc[i].info) :
          LET props == analyzeMediaInfo(proc[i].info, catalog)
          IN  /\ ~noUsableStreams(proc[i].info, props)
              /\ Goto(i, fs, [proc[i] EXCEPT !.props = props,
                                             !.catalogs = CatalogCalls(proc[i].info)],
                      IF catalog = env.catalog THEN 0 ELSE 1)

\* createProxyDirectory: Proxy is there, or os.MkdirAll makes it
ProxyDirOk(i) ==
    /\ proc[i].pc = "PrepareProxyDir"
    /\ Goto(i, [fs EXCEPT !.dirs = @ \cup {"Proxy"}], proc[i], 0)

\* createProxyDirectory: Proxy is missing and os.MkdirAll fails
ProxyDirFails(i) ==
    /\ proc[i].pc = "PrepareProxyDir"
    /\ "Proxy" \notin fs.dirs
    /\ MayFail
    /\ Return(i, "Failed", "ProxyDirectoryUnavailable", fs, proc[i], 1)

ProxyCmd(i) == createFfmpegCommandForProxy(CurPath(i), ProxyFilePath(CurPath(i)), proc[i].props)

\* faulty variant: every file with an audio stream is remediated
remediationDue_AnyAudio(media) == media.hasAudioStream

\* processFile: whether processUnsupportedAudioOriginal is called after the proxy plan
remediationDue(media) == media.unsupportedAudioFormat

\* the proxy plan runs to the end; processFile returns unless the audio needs remediation
ProxyPlanOk(i) ==
    LET cmd == ProxyCmd(i)
        f == TranscodeOk(fs, cmd)
        p == [proc[i] EXCEPT !.plans = @ + 1, !.proxied = FileAt(f, Key(CmdOutput(cmd)))]
    IN  /\ proc[i].pc = "ExecuteProxyPlan"
        /\ CanTranscode(fs, cmd)
        /\ IF remediationDue(proc[i].props)
           THEN Goto(i, f, p, 0)
           ELSE Return(i, "Succeeded", "", f, p, 0)

\* the proxy plan cannot be started or exits with an error
ProxyPlanFails(i) ==
    /\ proc[i].pc = "ExecuteProxyPlan"
    /\ CanTranscode(fs, ProxyCmd(i)) => MayFail
    /\ \E f \in TranscodeFailed(fs, ProxyCmd(i)) :
          Return(i, "Failed", "TranscodeExecutionFailed", f, [proc[i] EXCEPT !.plans = @ + 1],
                 IF CanTranscode(fs, ProxyCmd(i)) THEN 1 ELSE 0)

\* processUnsupportedAudioOriginal: Originals is there, or os.MkdirAll makes it
OriginalsDirOk(i) ==
    /\ proc[i].pc = "RemPrepareDir"
    /\ Goto(i, [fs EXCEPT !.dirs = @ \cup {"Originals"}], proc[i], 0)

OriginalsDirFails(i) ==
    /\ proc[i].pc = "RemPrepareDir"
    /\ "Originals" \notin fs.dirs
    /\ MayFail
    /\ Return(i, "Failed", "OriginalsDirectoryUnavailable", fs, proc[i], 1)

\* processUnsupportedAudioOriginal: a file of that name is in Originals already
OriginalExists(i) ==
    /\ proc[i].pc = "RemCheckOriginal"
    /\ originalAlreadyExists(fs, CurPath(i))
    /\ Return(i, "Failed", "OriginalAlreadyExists", fs, proc[i], 0)

OriginalFree(i) ==
    /\ proc[i].pc = "RemCheckOriginal"
    /\ ~originalAlreadyExists(fs, CurPath(i))
    /\ Goto(i, fs, proc[i], 0)

\* os.Rename(filePath, inputFilePath): replaces whatever is at the target
Renamed(f, from, to) ==
    Remove(Put(f, Key(to), FileAt(f, Key(from))), Key(from))

RenameOk(i) ==
    /\ proc[i].pc = "RemRename"
    /\ Exists(fs, CurPath(i))
    /\ Goto(i, Renamed(fs, CurPath(i), OriginalsPath(CurPath(i))), proc[i], 0)

RenameFails(i) ==
    /\ proc[i].pc = "RemRename"
    /\ Exists(fs, CurPath(i)) => MayFail
    /\ Return(i, "Failed", "OriginalRelocationFailed", fs, proc[i],
              IF Exists(fs, CurPath(i)) THEN 1 ELSE 0)

ConvertOk(i) ==
    LET cmd == createFfmpegCommandForOriginal(CurPath(i))
    IN  /\ proc[i].pc = "RemConvert"
        /\ CanTranscode(fs, cmd)
        /\ Return(i, "Succeeded", "", TranscodeOk(fs, cmd), [proc[i] EXCEPT !.plans = @ + 1], 0)

ConvertFails(i) ==
    LET cmd == createFfmpegCommandForOriginal(CurPath(i))
    IN  /\ proc[i].pc = "RemConvert"
        /\ CanTranscode(fs, cmd) => MayFail
        /\ \E f \in TranscodeFailed(fs, cmd) :
              Return(i, "Failed", "TranscodeExecutionFailed", f, [proc[i] EXCEPT !.plans = @ + 1],
                     IF CanTranscode(fs, cmd) THEN 1 ELSE 0)

\* ---------------------------------------------------------------- initial states

Video(w, h, pix) == [kind |-> "video", codec |-> <<"h264">>, w |-> w, h |-> h, pix |-> pix]
Audio(codec) == [kind |-> "audio", codec |-> codec, w |-> 0, h |-> 0, pix |-> ""]
Subtitle == [kind |-> "subtitle", codec |-> <<"mov_text">>, w |-> 0, h |-> 0, pix |-> ""]

\* what the files of the watched directory can hold
FileStreams ==
    { <<>>,
      <<Subtitle>>,
      <<Video(1, 2, "yuv420p10le"), Audio(<<"aac">>)>>,
      <<Audio(<<"flac">>)>> }

EmptyFs == [files |-> <<>>, dirs |-> {}]

\* the directory before the first run: at most MaxFiles files, and possibly the
\* Proxy and Originals subdirectories of an earlier use, empty or not
InitialFs ==
    { [files |-> [k \in {[sub |-> "", name |-> n] : n \in S} \cup old |->
                    IF k.sub = ""
                    THEN Source(k.name, IF isMediaFile(Path("", "", k.name)) THEN c[k.name] ELSE <<>>)
                    ELSE Earlier(k.name)],
       dirs |-> {k.sub : k \in old}] :
        S \in {T \in SUBSET Names : Cardinality(T) <= MaxFiles},
        c \in [Names -> FileStreams],
        old \in SUBSET { [sub |-> "Proxy", name |-> <<"a", ".", "mov">>],
                         [sub |-> "Originals", name |-> <<"a", ".", "mp4">>] } }

\* the environments main starts in: everything in place, or one thing wrong
Environments ==
    { [watchPath |-> "media", ffmpeg |-> TRUE, ffprobe |-> TRUE, catalog |-> DefaultCatalog],
      [watchPath |-> "media", ffmpeg |-> TRUE, ffprobe |-> FALSE, catalog |-> DefaultCatalog],
      [watchPath |-> "media", ffmpeg |-> FALSE, ffprobe |-> TRUE, catalog |-> DefaultCatalog],
      [watchPath |-> "Proxy", ffmpeg |-> TRUE, ffprobe |-> TRUE, catalog |-> DefaultCatalog] }

InitAnalyzerIdle ==
    /\ aStreams = <<>>
    /\ aCatalog = FailedCatalog
    /\ aIdx = 1
    /\ aProps = ZeroProps
    /\ aPrev = ZeroProps

NoCall ==
    [op |-> "none", codecName |-> <<>>, filePath |-> Path("", "", <<>>),
     proxyFilePath |-> Path("", "", <<>>), media |-> ZeroProps,
     catalog |-> FailedCatalog, pixelFormat |-> ""]
NoRet == [done |-> FALSE, supported |-> FALSE, cmd |-> <<>>, bitDepth |-> Err]

InitCallIdle ==
    /\ call = NoCall
    /\ ret = NoRet

InitWorkflowIdle ==
    /\ fs = EmptyFs
    /\ env = [watchPath |-> "media", ffmpeg |-> TRUE, ffprobe |-> TRUE, catalog |-> DefaultCatalog]
    /\ proc = [i \in Insts |-> IdleProc]
    /\ log = <<>>
    /\ faults = 0

Init ==
    /\ fs \in InitialFs
    /\ env \in Environments
    /\ proc = [i \in Insts |-> IF i = 1 THEN [IdleProc EXCEPT !.pc = "main", !.run = 1]
                                        ELSE IdleProc]
    /\ log = <<>>
    /\ faults = 0
    /\ InitAnalyzerIdle
    /\ InitCallIdle

\* a step of one run of main
RunStep(i) ==
    \/ MainNoFfmpeg(i)
    \/ MainReadDirFails(i)
    \/ MainReadDir(i)
    \/ MainSkipEntry(i)
    \/ MainProcessFile(i)
    \/ MainExit(i)
    \/ Skip(i)
    \/ NotSkipped(i)
    \/ ProbeOk(i)
    \/ ProbeFails(i)
    \/ ValidateFails(i)
    \/ ValidateOk(i)
    \/ ProxyDirOk(i)
    \/ ProxyDirFails(i)
    \/ ProxyPlanOk(i)
    \/ ProxyPlanFails(i)
    \/ OriginalsDirOk(i)
    \/ OriginalsDirFails(i)
    \/ OriginalExists(i)
    \/ OriginalFree(i)
    \/ RenameOk(i)
    \/ RenameFails(i)
    \/ ConvertOk(i)
    \/ ConvertFails(i)

\* main is run over the directory again and again, one run after the other
Step(i) == RunStep(i) \/ MainAgain(i)

Next == \E i \in Insts : Step(i)

Spec == Init /\ [][Next]_vars

InitAnalyze ==
    /\ InitWorkflowIdle
    /\ aStreams \in SeqsUpTo(StreamDescs, MaxStreams)
    /\ aCatalog \in Catalogs
    /\ aIdx = 1
    /\ aProps = ZeroProps
    /\ aPrev = ZeroProps
    /\ InitCallIdle

NextAnalyze == AnalyzeNext

SpecAnalyze == InitAnalyze /\ [][NextAnalyze]_vars

\* ---------------------------------------------------------------- two instances of main

\* the names in the directory two instances are started on
SharedNames == {<<"a", ".", "mp4">>, <<"n", ".", "txt">>}
\* a.mp4 is there, with a video stream and an aac audio stream or with no stream at all
SharedFs ==
    {f \in InitialFs :
        /\ \A k \in DOMAIN f.files : k.sub = "" => k.name \in SharedNames
        /\ FileAt(f, [sub |-> "", name |-> <<"a", ".", "mp4">>]) \in
              {Source(<<"a", ".", "mp4">>, s) : s \in {<<>>, <<Video(1, 2, "yuv420p10le"), Audio(<<"aac">>)>>}}}
SharedEnvs == {e \in Environments : e.watchPath = "media" /\ e.ffprobe}

\* one instance of main is started on the directory, or two at the same time
InitShared ==
    /\ fs \in SharedFs
    /\ env \in SharedEnvs
    /\ proc \in {[i \in Insts |-> IF i \in S THEN [IdleProc EXCEPT !.pc = "main", !.run = 1]
                                             ELSE IdleProc] : S \in {{1}, {1, 2}}}
    /\ log = <<>>
    /\ faults = 0
    /\ InitAnalyzerIdle
    /\ InitCallIdle

\* each instance runs main once
NextShared == \E i \in Insts : RunStep(i)

SpecShared == InitShared /\ [][NextShared]_vars

\* ---------------------------------------------------------------- function calls

\* codec names as token sequences: "aac", "mp3float", "pcm_s16le", ...
NameTokens == {"pcm_", "s16le", "mp3", "float", "opus", "flac", "ac3", "aac"}
CodecNames == SeqsUpTo(NameTokens, MaxTokens)

\* every value a mediaProperties struct can be given
BitDepths == {0, 1, 8, 10, 12}
AllProps ==
    [hasVideoStream : BOOLEAN, hasAudioStream : BOOLEAN, isVertical : BOOLEAN,
     unsupportedAudioFormat : BOOLEAN, highestBitDepth : BitDepths]

FilePaths == {FilePathOf(w, n) : w \in {"media", "Proxy"}, n \in Names}
ProxyPaths == {ProxyFilePath(f) : f \in FilePaths}

CodecCalls == {[NoCall EXCEPT !.op = "isAudioCodecSupported", !.codecName = c] : c \in CodecNames}
ProxyPlanCalls ==
    {[NoCall EXCEPT !.op = "createFfmpegCommandForProxy",
                    !.filePath = f, !.proxyFilePath = q, !.media = m] :
        f \in FilePaths, q \in ProxyPaths, m \in AllProps}
OriginalPlanCalls ==
    {[NoCall EXCEPT !.op = "createFfmpegCommandForOriginal", !.filePath = f] : f \in FilePaths}

\* getBitDepth with what the listing command prints at the time of the call
BitDepthCalls ==
    {[NoCall EXCEPT !.op = "getBitDepth", !.catalog = c, !.pixelFormat = f] :
        c \in Catalogs, f \in PixFmtNames}

ApplyGetBitDepth ==
    /\ call.op = "getBitDepth" /\ ~ret.done
    /\ ret' = [NoRet EXCEPT !.done = TRUE, !.bitDepth = getBitDepth(call.catalog, call.pixelFormat)]
    /\ UNCHANGED <<call, wfVars, anVars>>

ApplyIsAudioCodecSupported ==
    /\ call.op = "isAudioCodecSupported" /\ ~ret.done
    /\ ret' = [NoRet EXCEPT !.done = TRUE, !.supported = isAudioCodecSupported(call.codecName)]
    /\ UNCHANGED <<call, wfVars, anVars>>

ApplyCreateFfmpegCommandForProxy ==
    /\ call.op = "createFfmpegCommandForProxy" /\ ~ret.done
    /\ ret' = [NoRet EXCEPT !.done = TRUE,
                            !.cmd = createFfmpegCommandForProxy(call.filePath, call.proxyFilePath, call.media)]
    /\ UNCHANGED <<call, wfVars, anVars>>

ApplyCreateFfmpegCommandForOriginal ==
    /\ call.op = "createFfmpegCommandForOriginal" /\ ~ret.done
    /\ ret' = [NoRet EXCEPT !.done = TRUE, !.cmd = createFfmpegCommandForOriginal(call.filePath)]
    /\ UNCHANGED <<call, wfVars, anVars>>

InitCalls ==
    /\ InitWorkflowIdle
    /\ InitAnalyzerIdle
    /\ call \in CodecCalls \cup ProxyPlanCalls \cup OriginalPlanCalls \cup BitDepthCalls
    /\ ret = NoRet

NextCalls ==
    \/ ApplyGetBitDepth
    \/ ApplyIsAudioCodecSupported
    \/ ApplyCreateFfmpegCommandForProxy
    \/ ApplyCreateFfmpegCommandForOriginal

SpecCalls == InitCalls /\ [][NextCalls]_vars

\* ---------------------------------------------------------------- properties of the workflow

SrcKey(name) == Key(FilePathOf(env.watchPath, name))
\* the key of the proxy of each name in use; a key leaves out the watched
\* directory, so it is the same for every watch path
ProxyKeyOf == [n \in Names |-> Key(ProxyFilePath(FilePathOf("media", n)))]
ProxyKey(name) == ProxyKeyOf[name]
OrigKey(name) == Key(OriginalsPath(FilePathOf(env.watchPath, name)))

\* the proxy plan of the logged call ran to the end
ProxyProduced(e) == e.proxied /= NoFile
\* the logged call went on to processUnsupportedAudioOriginal
RemediationAttempted(e) == ProxyProduced(e) /\ e.props.unsupportedAudioFormat
\* the probe of the logged call returned a stream list
Probed(e) == e.result /= "Skipped" /\ e.reason /= "ProbeFailed"
Usable(streams) == \E k \in 1..Len(streams) : streams[k].kind \in {"video", "audio"}

BeforeProxyDir == {"IdempotencyCheck", "Probe", "Validate", "PrepareProxyDir"}
AfterValidate ==
    {"PrepareProxyDir", "ExecuteProxyPlan", "RemPrepareDir", "RemCheckOriginal", "RemRename", "RemConvert"}
Remediating == {"RemPrepareDir", "RemCheckOriginal", "RemRename", "RemConvert"}

\* C1: when a call of the workflow on a file ends Succeeded, the call on the same
\* file in the next run over the unchanged directory ends Skipped, and the proxy
\* file then holds exactly what it held after the first call.
C1_Idempotent ==
    \A j, k \in DOMAIN log :
        ( /\ log[j].inst = log[k].inst
          /\ log[j].name = log[k].name
          /\ log[k].run = log[j].run + 1
          /\ log[j].result = "Succeeded" )
        => /\ log[k].result = "Skipped"
           /\ FileAt(log[j].fsEnd, ProxyKey(log[j].name)) /= NoFile
           /\ FileAt(log[k].fsEnd, ProxyKey(log[k].name)) = FileAt(log[j].fsEnd, ProxyKey(log[j].name))

C1_Witness ==
    \E j, k \in DOMAIN log :
        /\ log[j].name = log[k].name
        /\ log[k].run = log[j].run + 1
        /\ log[j].result = "Succeeded"
        /\ log[k].result = "Skipped"

CallsOf(i, run, name) ==
    {j \in DOMAIN log : log[j].inst = i /\ log[j].run = run /\ log[j].name = name}

\* C2: in a batch run every eligible entry of the listing is handed to the
\* workflow exactly once, in order, whatever the earlier calls returned: at the
\* loop head each eligible entry before the index has one logged call and each
\* later one none, and the run ends only with the index past the last entry.
C2_EveryEligibleFileOnce ==
    \A i \in Insts :
        proc[i].pc \in {"loop", "exit"} =>
            /\ proc[i].pc = "exit" => proc[i].idx = Len(proc[i].entries) + 1
            /\ \A k \in 1..Len(proc[i].entries) :
                  LET e == proc[i].entries[k]
                      n == Cardinality(CallsOf(i, proc[i].run, e.name))
                  IN  IF Eligible(e) /\ k < proc[i].idx THEN n = 1 ELSE n = 0

C2_Witness ==
    \E i \in Insts :
        /\ proc[i].pc = "exit"
        /\ \E j, k \in DOMAIN log :
              /\ j < k
              /\ log[j].run = log[k].run
              /\ log[j].result = "Failed"
              /\ log[j].reason = "TranscodeExecutionFailed"
              /\ log[k].result = "Succeeded"

\* C3: when the remediation of a file is attempted while Originals already holds
\* a file of its name, the call fails with OriginalAlreadyExists, the source is
\* still at its path with the content it had, and the file in Originals is the
\* one that was there.
C3_OriginalNeverOverwritten ==
    \A j \in DOMAIN log :
        ( /\ RemediationAttempted(log[j])
          /\ FileAt(log[j].fsStart, OrigKey(log[j].name)) /= NoFile )
        => /\ log[j].result = "Failed"
           /\ log[j].reason = "OriginalAlreadyExists"
           /\ log[j].plans = 1
           /\ FileAt(log[j].fsEnd, SrcKey(log[j].name)) = FileAt(log[j].fsStart, SrcKey(log[j].name))
           /\ FileAt(log[j].fsEnd, SrcKey(log[j].name)) /= NoFile
           /\ FileAt(log[j].fsEnd, OrigKey(log[j].name)) = FileAt(log[j].fsStart, OrigKey(log[j].name))

C3_Witness ==
    \E j \in DOMAIN log :
        /\ RemediationAttempted(log[j])
        /\ FileAt(log[j].fsStart, OrigKey(log[j].name)) = Earlier(log[j].name)
        /\ log[j].reason = "OriginalAlreadyExists"

\* C4: once the proxy plan of a call has run to the end, the proxy file keeps
\* the content that run gave it through every step of the remediation, and a
\* call whose remediation fails ends Failed with that proxy still in place.
C4_ProxyKeptOnRemediationFailure ==
    /\ \A i \in Insts :
          proc[i].pc \in Remediating =>
              /\ proc[i].proxied /= NoFile
              /\ FileAt(fs, ProxyKey(proc[i].name)) = proc[i].proxied
    /\ \A j \in DOMAIN log :
          ProxyProduced(log[j]) /\ log[j].result /= "Succeeded" =>
              /\ log[j].result = "Failed"
              /\ log[j].reason \in {"OriginalsDirectoryUnavailable", "OriginalAlreadyExists",
                                    "OriginalRelocationFailed", "TranscodeExecutionFailed"}
              /\ FileAt(log[j].fsEnd, ProxyKey(log[j].name)) = log[j].proxied

C4_Witness ==
    \E j \in DOMAIN log :
        /\ ProxyProduced(log[j])
        /\ log[j].result = "Failed"
        /\ log[j].reason = "TranscodeExecutionFailed"
        /\ FileAt(log[j].fsEnd, SrcKey(log[j].name)).tag = "partial"
        /\ FileAt(log[j].fsEnd, ProxyKey(log[j].name)) = log[j].proxied

\* C5: up to and including the step that prepares the proxy directory nothing in
\* the directory has changed since the call began; a call that ends Skipped, or
\* Failed at the probe or at validation, leaves the directory as it found it, and
\* a Skipped call has run neither the probe tool nor the transcode tool.
C5_NoEffectBeforeProxyDir ==
    /\ \A i \in Insts : proc[i].pc \in BeforeProxyDir => fs = proc[i].fsStart
    /\ \A j \in DOMAIN log :
          /\ ( \/ log[j].result = "Skipped"
               \/ log[j].result = "Failed" /\ log[j].reason \in {"ProbeFailed", "NoUsableStreams"} )
             => log[j].fsEnd = log[j].fsStart
          /\ log[j].result = "Skipped"
             => log[j].probes = 0 /\ log[j].catalogs = 0 /\ log[j].plans = 0

C5_Witness ==
    \E j, k \in DOMAIN log :
        /\ log[j].result = "Skipped"
        /\ log[k].reason = "NoUsableStreams"
        /\ "Proxy" \notin log[k].fsEnd.dirs

\* C6: a call whose probe returns no stream, or only streams that are neither
\* video nor audio, ends Failed with NoUsableStreams, builds and runs no
\* transcode plan and changes nothing; no step after validation is ever reached
\* with such a stream list.
C6_NoUsableStreams ==
    /\ \A i \in Insts : proc[i].pc \in AfterValidate => Usable(proc[i].info)
    /\ \A j \in DOMAIN log :
          Probed(log[j]) /\ ~Usable(log[j].info) =>
              /\ log[j].result = "Failed"
              /\ log[j].reason = "NoUsableStreams"
              /\ log[j].plans = 0
              /\ log[j].fsEnd = log[j].fsStart

C6_Witness ==
    \E j, k \in DOMAIN log :
        /\ Probed(log[j]) /\ log[j].info = <<>> /\ log[j].reason = "NoUsableStreams"
        /\ Probed(log[k]) /\ Len(log[k].info) > 0 /\ ~Usable(log[k].info)
        /\ log[k].reason = "NoUsableStreams"

\* ---------------------------------------------------------------- properties of the analyzer

\* the depths the consumed video streams contribute
SeenDepths == {StreamBitDepth(aCatalog, aStreams[i]) : i \in SeenVideo}

\* C7 as claimed: highestBitDepth >= 8 when a video stream is present, 0 when none is.
C7_AsClaimed ==
    AnalyzeDone =>
        /\ SeenVideo /= {} => aProps.highestBitDepth >= 8
        /\ SeenVideo = {} => aProps.highestBitDepth = 0

\* C7: highestBitDepth is 0 when no video stream is present, never negative, and
\* at least 8 when some video stream's depth resolves to 8 or more or fails to
\* resolve; video streams that all resolve below 8 leave it below 8.
C7_BitDepthFloor ==
    /\ SeenVideo = {} => aProps.highestBitDepth = 0
    /\ aProps.highestBitDepth >= 0
    /\ (\E d \in SeenDepths : d >= 8) => aProps.highestBitDepth >= 8
    /\ (SeenVideo /= {} /\ \A d \in SeenDepths : d < 8) => aProps.highestBitDepth < 8

C7_Witness ==
    /\ AnalyzeDone
    /\ Len(aStreams) = 2
    /\ aStreams[1].kind = "video" /\ StreamBitDepth(aCatalog, aStreams[1]) = 10
    /\ aStreams[2].kind = "video" /\ StreamBitDepth(aCatalog, aStreams[2]) = 1
    /\ aProps.highestBitDepth = 10

\* C8: unsupportedAudioFormat is true iff at least one audio stream has a codec
\* the support predicate rejects.
C8_AnyUnsupported ==
    AnalyzeDone =>
        (aProps.unsupportedAudioFormat
            <=> \E i \in SeenAudio : ~isAudioCodecSupported(aStreams[i].codec))

\* C9: unsupportedAudioFormat is the negated support predicate of the last audio
\* stream consumed, false while none was consumed, and never true without
\* hasAudioStream.
C9_LastAudioWins ==
    /\ SeenAudio = {} => ~aProps.unsupportedAudioFormat
    /\ SeenAudio /= {} =>
          aProps.unsupportedAudioFormat = ~isAudioCodecSupported(aStreams[MaxOf(SeenAudio)].codec)
    /\ aProps.unsupportedAudioFormat => aProps.hasAudioStream

C9_Witness ==
    /\ AnalyzeDone
    /\ Cardinality(SeenAudio) = 2
    /\ \E i \in SeenAudio : ~isAudioCodecSupported(aStreams[i].codec)
    /\ ~aProps.unsupportedAudioFormat

\* C10: hasVideoStream is true iff a video stream was consumed, hasAudioStream
\* iff an audio stream was, and an iteration over a stream of another kind
\* leaves every property as it was.
C10_StreamFlags ==
    /\ aProps.hasVideoStream <=> SeenVideo /= {}
    /\ aProps.hasAudioStream <=> SeenAudio /= {}
    /\ (aIdx > 1 /\ aStreams[aIdx - 1].kind \notin {"video", "audio"}) => aProps = aPrev

C10_Witness ==
    /\ AnalyzeDone
    /\ Len(aStreams) = 2
    /\ aStreams[1].kind = "video"
    /\ aStreams[2].kind = "subtitle"
    /\ aProps.hasVideoStream /\ ~aProps.hasAudioStream
    /\ aProps = aPrev

\* the resolution of the pixel format of the i-th stream against the run's catalog
Resolution(i) == getBitDepth(aCatalog, aStreams[i].pix)

\* C11: after every iteration highestBitDepth is the maximum, over the video
\* streams consumed, of the depth the catalog resolves for the stream's pixel
\* format, a failed resolution (format not listed, or the listing tool failed)
\* counting as exactly 8, and 0 when no video stream was consumed; the loop
\* always has a next iteration until the streams are exhausted.
C11_HighestIsMax ==
    /\ aProps.highestBitDepth =
          MaxOf({0} \cup {IF Resolution(i).ok THEN Resolution(i).val ELSE 8 : i \in SeenVideo})
    /\ ~AnalyzeDone => ENABLED AnalyzeNext

C11_Witness ==
    /\ AnalyzeDone
    /\ Len(aStreams) = 2
    /\ aCatalog.ok
    /\ aStreams[1].kind = "video" /\ Resolution(1) = Ok(1)
    /\ aStreams[2].kind = "video" /\ ~Resolution(2).ok
    /\ aProps.highestBitDepth = 8

\* C12: while no video stream has been consumed isVertical is false; afterwards
\* it is height >= width of the last video stream consumed (a square stream
\* counts as vertical), whatever the earlier video streams were.
C12_LastVideoOrientation ==
    /\ SeenVideo = {} => ~aProps.isVertical
    /\ SeenVideo /= {} =>
          LET last == aStreams[MaxOf(SeenVideo)]
          IN  aProps.isVertical = (last.h >= last.w)

C12_Witness ==
    /\ AnalyzeDone
    /\ Len(aStreams) = 2
    /\ aStreams[1].kind = "video" /\ aStreams[1].w > aStreams[1].h
    /\ aStreams[2].kind = "video" /\ aStreams[2].w = aStreams[2].h
    /\ aProps.isVertical

\* ---------------------------------------------------------------- properties of the function calls

\* C13: the codec support predicate returns true exactly for the names that
\* contain the substring pcm_ or are one of mp3, opus, flac, ac3, and false for
\* every other name; aac, and a name such as mp3float that only contains mp3,
\* are rejected.
C13_CodecSupport ==
    (call.op = "isAudioCodecSupported" /\ ret.done) =>
        /\ ret.supported <=>
              \/ \E k \in 1..Len(call.codecName) : call.codecName[k] = "pcm_"
              \/ call.codecName \in {<<"mp3">>, <<"opus">>, <<"flac">>, <<"ac3">>}
        /\ call.codecName \in {<<"aac">>, <<"mp3", "float">>, <<>>} => ~ret.supported

C13_Witness ==
    /\ call.op = "isAudioCodecSupported"
    /\ ret.done
    /\ call.codecName = <<"mp3", "float">>
    /\ ~ret.supported

\* ---------------------------------------------------------------- properties of the batch driver

\* the control points of main outside processFile
MainPoints == {"off", "main", "loop", "fatal", "exit"}

\* C14: when the probe tool or the transcode tool is not installed, the
\* workflow of no file ever starts: no instance is ever inside processFile and
\* no call is logged.
C14_BothToolsPreflight ==
    (~env.ffmpeg \/ ~env.ffprobe) =>
        /\ \A i \in Insts : proc[i].pc \in MainPoints
        /\ log = <<>>

\* ---------------------------------------------------------------- properties of the remediation

\* the audio streams of a file all carry a PCM codec
AllAudioPcm(content) ==
    \A k \in 1..Len(content.streams) :
        content.streams[k].kind = "audio" => ContainsTok(content.streams[k].codec, "pcm_")

\* C15: when a call ends Succeeded for a file whose properties flag unsupported
\* audio, then at its end Originals/<name><ext> holds the source exactly as the
\* call found it, the source path holds a file regenerated from it with PCM
\* audio, and Proxy/<name>.mov holds the proxy the call produced.
C15_SucceededRemediationLayout ==
    \A j \in DOMAIN log :
        (log[j].result = "Succeeded" /\ log[j].props.unsupportedAudioFormat) =>
            LET before == FileAt(log[j].fsStart, SrcKey(log[j].name))
                kept == FileAt(log[j].fsEnd, OrigKey(log[j].name))
                regenerated == FileAt(log[j].fsEnd, SrcKey(log[j].name))
                proxy == FileAt(log[j].fsEnd, ProxyKey(log[j].name))
            IN  /\ before.tag = "src"
                /\ kept = before
                /\ regenerated.tag = "transcoded"
                /\ regenerated.of = before.of
                /\ AllAudioPcm(regenerated)
                /\ proxy /= NoFile
                /\ proxy = log[j].proxied
                /\ proxy.tag = "transcoded"

C15_Witness ==
    \E j \in DOMAIN log :
        /\ log[j].result = "Succeeded"
        /\ log[j].props.unsupportedAudioFormat
        /\ log[j].plans = 2
        /\ FileAt(log[j].fsStart, OrigKey(log[j].name)) = NoFile
        /\ FileAt(log[j].fsEnd, OrigKey(log[j].name)) = FileAt(log[j].fsStart, SrcKey(log[j].name))
        /\ FileAt(log[j].fsEnd, SrcKey(log[j].name)).tag = "transcoded"

\* ---------------------------------------------------------------- properties of two instances

\* instance i has found the Originals slot of the file free and gone on to the rename
PassedOriginalCheck(i, name) ==
    \/ proc[i].name = name /\ proc[i].pc \in {"RemRename", "RemConvert"}
    \/ \E j \in DOMAIN log :
          /\ log[j].inst = i
          /\ log[j].name = name
          /\ RemediationAttempted(log[j])
          /\ log[j].reason \notin {"OriginalsDirectoryUnavailable", "OriginalAlreadyExists"}

\* the Originals slot of the file holds what a transcode run wrote, not an original
OriginalOverwritten(name) == FileAt(fs, OrigKey(name)).tag \in {"transcoded", "partial"}

\* no file of the directory is the file as it was before any run
OriginalLost(name) ==
    \A k \in DOMAIN fs.files : ~(fs.files[k].tag = "src" /\ fs.files[k].of = name)

Running == {i \in Insts : proc[i].pc /= "off"}

\* C16: the Originals slot of a file comes to hold a regenerated or partial file
\* in place of the original only when two instances run and both have passed the
\* existence check for that file; while a single instance runs, the slot never
\* holds such a file and a slot found occupied at the start of a call holds the
\* same file at its end.
C16_OverwriteNeedsTwoInstances ==
    /\ \A name \in Names :
          OriginalOverwritten(name) =>
              /\ Running = Insts
              /\ \A i \in Insts : PassedOriginalCheck(i, name)
    /\ Running /= Insts =>
          \A j \in DOMAIN log :
              FileAt(log[j].fsStart, OrigKey(log[j].name)) /= NoFile =>
                  FileAt(log[j].fsEnd, OrigKey(log[j].name)) = FileAt(log[j].fsStart, OrigKey(log[j].name))

\* two instances have both passed the check for a.mp4, the second rename has put
\* the regenerated file over the original in Originals, and the original is gone
C16_Witness ==
    \E name \in Names :
        /\ Running = Insts
        /\ \A i \in Insts : PassedOriginalCheck(i, name)
        /\ FileAt(fs, OrigKey(name)).tag = "transcoded"
        /\ OriginalLost(name)

\* ---------------------------------------------------------------- properties of the plans

\* C17: for every source path the original-conversion plan reads
\* <dir>/Originals/<file name with extension>, which is the path the remediation
\* renames the source to, writes the source path as its last token, and carries
\* -c:v copy and -c:a pcm_s16le; it is given nothing but the path.
C17_OriginalPlanShape ==
    (call.op = "createFfmpegCommandForOriginal" /\ ret.done) =>
        /\ CmdInput(ret.cmd) =
              [dir |-> call.filePath.dir, sub |-> "Originals", name |-> call.filePath.name]
        /\ CmdInput(ret.cmd) = OriginalsPath(call.filePath)
        /\ Last(ret.cmd) = Arg(call.filePath)
        /\ After(ret.cmd, "-c:v") = Lit("copy")
        /\ After(ret.cmd, "-c:a") = Lit("pcm_s16le")
        /\ ret.cmd[1] = Lit("ffmpeg")
        /\ Cardinality({k \in 1..Len(ret.cmd) : ret.cmd[k].s = ""}) = 2

C17_Witness ==
    /\ call.op = "createFfmpegCommandForOriginal"
    /\ ret.done
    /\ call.filePath = FilePathOf("media", <<"b", ".", "MOV">>)
    /\ CmdInput(ret.cmd) = Path("media", "Originals", <<"b", ".", "MOV">>)
    /\ CmdOutput(ret.cmd) = call.filePath

\* the tokens every proxy plan starts with, up to and including the input path
ProxyPlanPrefix(filePath) ==
    <<Lit("ffmpeg"), Lit("-y"), Lit("-hide_banner"), Lit("-loglevel"), Lit("error")>>
    \o (IF useHwaccel THEN <<Lit("-hwaccel"), Lit("cuda")>> ELSE <<>>)
    \o <<Lit("-i"), Arg(filePath)>>

\* C18: for every value of the properties the proxy plan starts with the fixed
\* prefix that ends with the input path and ends with the proxy path; it has
\* the video encoder, the bitrate cap and a scale filter iff hasVideoStream;
\* -pix_fmt yuv420p iff hasVideoStream and highestBitDepth > 8; of the two scale
\* filters the 540-wide one when isVertical and the 960-wide one otherwise;
\* -c:a pcm_s16le iff hasAudioStream and unsupportedAudioFormat; a file with
\* supported audio and no video gets the prefix and the proxy path only.
C18_ProxyPlanShape ==
    (call.op = "createFfmpegCommandForProxy" /\ ret.done) =>
        LET cmd == ret.cmd
            m == call.media
            prefix == ProxyPlanPrefix(call.filePath)
        IN  /\ Len(cmd) > Len(prefix)
            /\ SubSeq(cmd, 1, Len(prefix)) = prefix
            /\ Last(cmd) = Arg(call.proxyFilePath)
            /\ HasLit(cmd, "-c:v") <=> m.hasVideoStream
            /\ HasLit(cmd, "-maxrate") <=> m.hasVideoStream
            /\ HasLit(cmd, "-vf") <=> m.hasVideoStream
            /\ HasLit(cmd, "-pix_fmt") <=> (m.hasVideoStream /\ m.highestBitDepth > 8)
            /\ HasLit(cmd, "-pix_fmt") => After(cmd, "-pix_fmt") = Lit("yuv420p")
            /\ HasLit(cmd, "-vf") =>
                  After(cmd, "-vf") = IF m.isVertical THEN Lit("scale=540:-2") ELSE Lit("scale=960:-2")
            /\ HasLit(cmd, "scale=540:-2") <=> (m.hasVideoStream /\ m.isVertical)
            /\ HasLit(cmd, "scale=960:-2") <=> (m.hasVideoStream /\ ~m.isVertical)
            /\ HasLit(cmd, "-c:a") <=> (m.hasAudioStream /\ m.unsupportedAudioFormat)
            /\ HasLit(cmd, "-c:a") => After(cmd, "-c:a") = Lit("pcm_s16le")
            /\ (~m.hasVideoStream /\ ~(m.hasAudioStream /\ m.unsupportedAudioFormat))
                  => cmd = prefix \o <<Arg(call.proxyFilePath)>>

C18_Witness ==
    /\ call.op = "createFfmpegCommandForProxy"
    /\ ret.done
    /\ call.media.hasVideoStream /\ call.media.isVertical
    /\ call.media.highestBitDepth = 10
    /\ call.media.hasAudioStream /\ ~call.media.unsupportedAudioFormat
    /\ HasLit(ret.cmd, "-pix_fmt")
    /\ HasLit(ret.cmd, "scale=540:-2")
    /\ ~HasLit(ret.cmd, "-c:a")

\* ---------------------------------------------------------------- properties of the relocation

\* the source and the Originals side of the directory are in f as they are in g
SourceUntouched(f, g, name) ==
    /\ FileAt(f, SrcKey(name)) = FileAt(g, SrcKey(name))
    /\ FileAt(f, OrigKey(name)) = FileAt(g, OrigKey(name))
    /\ "Originals" \in f.dirs <=> "Originals" \in g.dirs

\* C20: the remediation steps are reached only with unsupported audio flagged
\* and the proxy plan run to the end; up to and including the run of the proxy
\* plan, and at the end of every call that is Skipped, that fails before the
\* proxy plan has run to the end, or whose audio is supported, the source is at
\* its path as the call found it, nothing was put into Originals and no
\* Originals directory was created.
C20_RelocationOnlyAfterProxy ==
    /\ \A i \in Insts :
          /\ proc[i].pc \in Remediating =>
                proc[i].props.unsupportedAudioFormat /\ proc[i].proxied /= NoFile
          /\ proc[i].pc \in BeforeProxyDir \cup {"ExecuteProxyPlan"} =>
                SourceUntouched(fs, proc[i].fsStart, proc[i].name)
    /\ \A j \in DOMAIN log :
          ( \/ log[j].result = "Skipped"
            \/ ~ProxyProduced(log[j])
            \/ ~log[j].props.unsupportedAudioFormat )
          => SourceUntouched(log[j].fsEnd, log[j].fsStart, log[j].name)

C20_Witness ==
    \E j, k \in DOMAIN log :
        /\ log[j].result = "Succeeded"
        /\ log[j].props.hasAudioStream /\ ~log[j].props.unsupportedAudioFormat
        /\ "Originals" \notin log[j].fsEnd.dirs
        /\ log[k].props.unsupportedAudioFormat
        /\ ProxyProduced(log[k])
        /\ "Originals" \notin log[k].fsStart.dirs
        /\ FileAt(log[k].fsEnd, SrcKey(log[k].name)) /= FileAt(log[k].fsStart, SrcKey(log[k].name))
        /\ FileAt(log[k].fsEnd, OrigKey(log[k].name)) = FileAt(log[k].fsStart, SrcKey(log[k].name))

\* ---------------------------------------------------------------- properties of the catalog resolver

\* the well-formed lines of the call's listing that carry the queried name, in order
NamedLines ==
    LET Named(l) == l.wf /\ l.name = call.pixelFormat
    IN  SelectSeq(call.catalog.lines, Named)

\* C21: getBitDepth returns what the first well-formed line with exactly the
\* queried name gives, whatever lines of other names and malformed lines stand
\* before or after it: with a component count above 1 the first component of
\* the depth field, otherwise the depth field as a number, 0 when the field is
\* not one number; it returns an error when no well-formed line has that name
\* or the listing command failed.
C21_FirstNamedLine ==
    (call.op = "getBitDepth" /\ ret.done) =>
        IF ~call.catalog.ok \/ NamedLines = <<>>
        THEN ~ret.bitDepth.ok
        ELSE LET l == NamedLines[1]
             IN  /\ ret.bitDepth.ok
                 /\ l.nb > 1 => ret.bitDepth.val = l.depth[1]
                 /\ (l.nb <= 1 /\ Len(l.depth) = 1) => ret.bitDepth.val = l.depth[1]
                 /\ (l.nb <= 1 /\ Len(l.depth) > 1) => ret.bitDepth.val = 0

C21_Witness ==
    /\ call.op = "getBitDepth"
    /\ ret.done
    /\ Len(call.catalog.lines) = 2
    /\ call.catalog.lines[1].name /= call.pixelFormat
    /\ call.catalog.lines[2].name = call.pixelFormat
    /\ call.catalog.lines[2].depth = <<10, 10, 10>>
    /\ ret.bitDepth = Ok(10)

\* ---------------------------------------------------------------- properties of the originals

\* processFile is between its first and its last statement
InProcessFile(i) == proc[i].pc \notin MainPoints

\* the directory as the first run of the single instance found it: main writes
\* nothing before its first call of processFile, and that call records what it found
FirstFs ==
    IF log /= <<>> THEN log[1].fsStart
    ELSE IF InProcessFile(1) THEN proc[1].fsStart
    ELSE fs

\* C22: in the runs of a single instance, every source file the first run found
\* in the directory is, in every state, at its source path or at
\* Originals/<name><ext> with the content it had then; this includes the states
\* between the rename and the end of the conversion and the end of every
\* failed call.
C22_OriginalAlwaysSomewhere ==
    \A name \in Names :
        LET original == FileAt(FirstFs, SrcKey(name))
        IN  original /= NoFile =>
                /\ original.tag = "src"
                /\ \/ FileAt(fs, SrcKey(name)) = original
                   \/ FileAt(fs, OrigKey(name)) = original

C22_Witness ==
    \E j \in DOMAIN log :
        /\ log[j].result = "Failed"
        /\ log[j].reason = "TranscodeExecutionFailed"
        /\ ProxyProduced(log[j])
        /\ FileAt(fs, SrcKey(log[j].name)).tag = "partial"
        /\ FileAt(fs, OrigKey(log[j].name)) = FileAt(FirstFs, SrcKey(log[j].name))
        /\ \E i \in Insts : proc[i].pc = "exit" /\ proc[i].run = 2

\* ---------------------------------------------------------------- properties of re-runs

\* C23: a call that finds a file at the proxy path of its source ends Skipped
\* and changes nothing; once a call has produced the proxy, every later call
\* for that source finds it, so a remediation that failed after the proxy was
\* produced is not attempted again and the source and the Originals slot stay
\* as that failed call left them.
C23_NoRetryOnceProxyExists ==
    /\ \A k \in DOMAIN log :
          FileAt(log[k].fsStart, ProxyKey(log[k].name)) /= NoFile =>
              /\ log[k].result = "Skipped"
              /\ log[k].fsEnd = log[k].fsStart
    /\ \A j \in DOMAIN log :
          ProxyProduced(log[j]) =>
              \A k \in (j + 1)..Len(log) :
                  log[k].name = log[j].name =>
                      /\ log[k].result = "Skipped"
                      /\ log[k].plans = 0
                      /\ FileAt(log[k].fsEnd, ProxyKey(log[j].name)) = log[j].proxied
                      /\ FileAt(log[k].fsEnd, SrcKey(log[j].name)) = FileAt(log[j].fsEnd, SrcKey(log[j].name))
                      /\ FileAt(log[k].fsEnd, OrigKey(log[j].name)) = FileAt(log[j].fsEnd, OrigKey(log[j].name))

C23_Witness ==
    \E j, k \in DOMAIN log :
        /\ j < k
        /\ log[j].name = log[k].name
        /\ log[j].result = "Failed"
        /\ log[j].reason = "OriginalRelocationFailed"
        /\ log[k].result = "Skipped"
        /\ log[k].run = MaxRuns
        /\ FileAt(log[k].fsEnd, OrigKey(log[k].name)) = NoFile
        /\ ~AllAudioPcm(FileAt(log[k].fsEnd, SrcKey(log[k].name)))

\* ---------------------------------------------------------------- properties of the proxy path

\* the file name without its extension, for each name in use
StemOf == [n \in Names |-> TrimSuffix(n, Ext(n))]
Stem(name) == StemOf[name]

\* two source paths have the same proxy path exactly when they are in the same
\* directory and their names differ at most in the extension
SharedProxyPathIffSameStem ==
    \A f1, f2 \in FilePaths :
        (ProxyFilePath(f1) = ProxyFilePath(f2)) <=>
            (Dir(f1) = Dir(f2) /\ Stem(Base(f1)) = Stem(Base(f2)))

\* C24 as claimed: a call ends Skipped only when the file the runs have written
\* at its proxy path was generated from the call's own source file.
C24_AsClaimed ==
    \A j \in DOMAIN log :
        LET proxy == FileAt(log[j].fsStart, ProxyKey(log[j].name))
        IN  (log[j].result = "Skipped" /\ proxy.tag \in {"transcoded", "partial"}) =>
                proxy.of = log[j].name

\* C24: a call ends Skipped exactly when some file is at Proxy/<stem>.mov when
\* it begins, whichever source that file was generated from; two source files
\* have the same proxy path exactly when their names differ at most in the
\* extension, and once the call for one of two such files has written a file
\* there, every later call for the other is Skipped and leaves that file as it
\* is, so the other file gets no proxy of its own.
C24_SkipOnSharedProxyPath ==
    /\ SharedProxyPathIffSameStem
    /\ \A j \in DOMAIN log :
          (log[j].result = "Skipped") <=> (FileAt(log[j].fsStart, ProxyKey(log[j].name)) /= NoFile)
    /\ \A j \in DOMAIN log :
          LET written == FileAt(log[j].fsEnd, ProxyKey(log[j].name))
          IN  (written.tag \in {"transcoded", "partial"} /\ written.of = log[j].name) =>
                  \A k \in (j + 1)..Len(log) :
                      (log[k].name /= log[j].name /\ Stem(log[k].name) = Stem(log[j].name)) =>
                          /\ log[k].result = "Skipped"
                          /\ FileAt(log[k].fsEnd, ProxyKey(log[k].name)) = written
                          /\ written.of /= log[k].name

C24_Witness ==
    \E j, k \in DOMAIN log :
        /\ log[j].run = log[k].run
        /\ log[j].name = <<"a", ".", "mkv">> /\ log[j].result = "Succeeded"
        /\ log[k].name = <<"a", ".", "mp4">> /\ log[k].result = "Skipped"
        /\ FileAt(log[k].fsStart, ProxyKey(log[k].name)).of = <<"a", ".", "mkv">>

====
